---------------------------- MODULE Spec2Model ----------------------------
(***************************************************************************)
(* Model of mediawiki_markdown_to_hugo.py: the conversion run (corpus      *)
(* load, Site Index construction, redirect discovery, the write loop) and  *)
(* the wikilink / redirect resolution engine of Document.TryToFixWikilinks.*)
(*                                                                         *)
(* Text is a sequence of characters; a character is a one-letter string.   *)
(* Letters with diacritics are written as the base letter followed by "~"  *)
(* ("l~" is the Polish l with stroke) because the module is ASCII only;   *)
(* "b~" and "#~" are the flat and the sharp sign, "q~" is the backtick.    *)
(***************************************************************************)
EXTENDS Integers, Sequences, FiniteSets, TLC

(***************************************************************************)
(* Bounds of the model.                                                    *)
(***************************************************************************)
\* Largest number of markdown files in the source directory.
MaxDocs == 3
\* Largest number of links in the body of one document.
MaxLinks == 1
\* Longest string Slugify is called on.
MaxSlugLen == 3
\* Largest number of lines of a content FixMonospace is called on.
MaxLines == 3

(***************************************************************************)
(* Characters and the str methods the program uses.                        *)
(***************************************************************************)
Lowers ==
  <<"a", "b", "c", "d", "e", "f", "g", "h", "i", "j", "k", "l", "m",
    "n", "o", "p", "q", "r", "s", "t", "u", "v", "w", "x", "y", "z",
    "a~", "e~", "l~", "o~">>
Uppers ==
  <<"A", "B", "C", "D", "E", "F", "G", "H", "I", "J", "K", "L", "M",
    "N", "O", "P", "Q", "R", "S", "T", "U", "V", "W", "X", "Y", "Z",
    "A~", "E~", "L~", "O~">>
\* The ASCII letter unidecode gives for each letter of Lowers / Uppers.
BaldLowers ==
  <<"a", "b", "c", "d", "e", "f", "g", "h", "i", "j", "k", "l", "m",
    "n", "o", "p", "q", "r", "s", "t", "u", "v", "w", "x", "y", "z",
    "a", "e", "l", "o">>
BaldUppers ==
  <<"A", "B", "C", "D", "E", "F", "G", "H", "I", "J", "K", "L", "M",
    "N", "O", "P", "Q", "R", "S", "T", "U", "V", "W", "X", "Y", "Z",
    "A", "E", "L", "O">>
Digits == {"0", "1", "2", "3", "4", "5", "6", "7", "8", "9"}

LowerSet == { Lowers[n] : n \in 1..Len(Lowers) }
UpperSet == { Uppers[n] : n \in 1..Len(Uppers) }
IndexOfChar(c, table) == CHOOSE n \in 1..Len(table) : table[n] = c
UpperOf == [c \in LowerSet |-> Uppers[IndexOfChar(c, Lowers)]]
LowerOf == [c \in UpperSet |-> Lowers[IndexOfChar(c, Uppers)]]
BaldOf ==
  [c \in LowerSet \cup UpperSet |->
     IF c \in LowerSet THEN BaldLowers[IndexOfChar(c, Lowers)]
     ELSE BaldUppers[IndexOfChar(c, Uppers)]]

IsCased(c) == c \in LowerSet \/ c \in UpperSet
UpperChar(c) == IF c \in LowerSet THEN UpperOf[c] ELSE c
LowerChar(c) == IF c \in UpperSet THEN LowerOf[c] ELSE c
\* unidecode.unidecode, one character.
UnidecodeChar(c) == IF IsCased(c) THEN BaldOf[c] ELSE c
\* A character of the regular expression class \w.
IsWordChar(c) == IsCased(c) \/ c \in Digits \/ c = "_"

\* str.lower
StrLower(s) == [n \in 1..Len(s) |-> LowerChar(s[n])]
\* str.title: a cased character is upper-cased when the character before it
\* is not cased, and lower-cased otherwise.
StrTitle(s) ==
  [n \in 1..Len(s) |->
     IF ~IsCased(s[n]) THEN s[n]
     ELSE IF n = 1 \/ ~IsCased(s[n - 1]) THEN UpperChar(s[n])
     ELSE LowerChar(s[n])]
\* str.replace for one-character arguments.
StrReplace(s, old, new) == [n \in 1..Len(s) |-> IF s[n] = old THEN new ELSE s[n]]
\* unidecode.unidecode
Unidecode(s) == [n \in 1..Len(s) |-> UnidecodeChar(s[n])]
\* str.startswith
StartsWith(s, prefix) ==
  /\ Len(prefix) <= Len(s)
  /\ SubSeq(s, 1, Len(prefix)) = prefix
\* re.match(prefix, s, flags=re.IGNORECASE) for a literal prefix.
MatchIgnoreCase(prefix, s) == StartsWith(StrLower(s), StrLower(prefix))
\* s[n:]
DropFirst(s, n) == SubSeq(s, n + 1, Len(s))

RECURSIVE StrStripChar(_, _)
\* str.strip(c)
StrStripChar(s, c) ==
  IF s = <<>> THEN s
  ELSE IF Head(s) = c THEN StrStripChar(Tail(s), c)
  ELSE IF s[Len(s)] = c THEN StrStripChar(SubSeq(s, 1, Len(s) - 1), c)
  ELSE s

RECURSIVE StrJoin(_, _)
\* sep.join(segments)
StrJoin(segments, sep) ==
  IF segments = <<>> THEN <<>>
  ELSE IF Len(segments) = 1 THEN segments[1]
  ELSE segments[1] \o sep \o StrJoin(Tail(segments), sep)

\* Position of the last occurrence of c in s, 0 when there is none.
LastIndexOf(s, c) ==
  IF \E n \in 1..Len(s) : s[n] = c
  THEN CHOOSE n \in 1..Len(s) :
         /\ s[n] = c
         /\ \A k \in (n + 1)..Len(s) : s[k] # c
  ELSE 0

RECURSIVE StrSplit(_, _)
\* str.split(sep) for a one-character separator.
StrSplit(s, sep) ==
  IF LastIndexOf(s, sep) = 0 THEN <<s>>
  ELSE Append(StrSplit(SubSeq(s, 1, LastIndexOf(s, sep) - 1), sep),
              DropFirst(s, LastIndexOf(s, sep)))

RECURSIVE SplitNonWord(_, _)
\* re.split("[^\w]+", s): cur is the segment being collected.  A run of
\* non-word characters ends the segment; the run is dropped.
SplitNonWord(s, cur) ==
  IF s = <<>> THEN <<cur>>
  ELSE IF IsWordChar(Head(s)) THEN SplitNonWord(Tail(s), Append(cur, Head(s)))
  ELSE IF Len(s) > 1 /\ ~IsWordChar(s[2]) THEN SplitNonWord(Tail(s), cur)
  ELSE <<cur>> \o SplitNonWord(Tail(s), <<>>)

(***************************************************************************)
(* Literals of the program.                                                *)
(***************************************************************************)
CATEGORY_TAG ==
  <<"C", "a", "t", "e", "g", "o", "r", "y">>
IMAGE_TAG ==
  <<"G", "r", "a", "p", "h", "i", "c", "s">>
MdExt ==
  <<".", "m", "d">>
NoPathExists ==
  <<"/", "n", "o", "/", "p", "a", "t", "h", "/", "e", "x", "i", "s", "t", "s">>
\* "<!-- link nie odnosil sie do niczego: "
CommentOpen ==
  <<"<", "!", "-", "-", " ", "l", "i", "n", "k", " ", "n", "i", "e", " ",
    "o", "d", "n", "o", "s", "i", "l~", " ", "s", "i", "e~", " ", "d", "o",
    " ", "n", "i", "c", "z", "e", "g", "o", ":", " ">>
CommentClose ==
  <<" ", "-", "-", ">">>
RelrefOpen ==
  <<"]", "(", "{", "{", "<", " ", "r", "e", "l", "r", "e", "f", " ", "\"">>
RelrefClose ==
  <<"\"", " ", ">", "}", "}", ")">>
KategorieOpen ==
  <<"]", "(", "/", "k", "a", "t", "e", "g", "o", "r", "i", "e", "/">>
KategoriaTitle ==
  <<" ", "\"", "K", "a", "t", "e", "g", "o", "r", "i", "a", " ">>
KategoriaClose ==
  <<"\"", ")">>
ImageOpen ==
  <<"{", "{", "<", " ", "i", "m", "a", "g", "e", " ", "s", "r", "c", "=", "\"">>
ImageClose ==
  <<"\"", " ", ">", "}", "}">>
ImagesDir ==
  <<"/", "i", "m", "a", "g", "e", "s", "/">>
PosixPathOpen ==
  <<" ", "(", "P", "o", "s", "i", "x", "P", "a", "t", "h", "(", "'">>
LinksTo ==
  <<"'", ")", ")", " ", "l", "i", "n", "k", "s", " ", "t", "o", " ">>
DoesNotExist ==
  <<"'", ")", ")", " ", "a", "n", "d", " ", "t", "h", "a", "t", " ", "d", "o",
    "e", "s", " ", "n", "o", "t", " ", "e", "x", "i", "s", "t">>
\* repr of a str without quotes or escapes in it.
Repr(s) == <<"'">> \o s \o <<"'">>

(***************************************************************************)
(* Slug / title normaliser.                                                *)
(***************************************************************************)
\* Slugify without its strip('-').
SlugifyNoStrip(s) ==
  StrJoin(SplitNonWord(StrLower(StrReplace(s, "_", " ")), <<>>), <<"-">>)

Slugify(s) ==
  LET no_under == StrReplace(s, "_", " ")
      lowercased == StrLower(no_under)
      segments == SplitNonWord(lowercased, <<>>)
  IN  StrStripChar(StrJoin(segments, <<"-">>), "-")

\* The note letters are chr(ord('A')) .. chr(ord('H') - 1), bare or followed
\* by a flat or a sharp sign (written "b~" and "#~" here).
IsNoteName(s) ==
  /\ Len(s) \in {1, 2}
  /\ s[1] \in {"A", "B", "C", "D", "E", "F", "G"}
  /\ Len(s) = 2 => s[2] \in {"b~", "#~"}

\* os.path.splitext(path)[0]
SplitExtRoot(path) ==
  LET dot == LastIndexOf(path, ".")
      slash == LastIndexOf(path, "/")
  IN  IF dot > slash + 1 THEN SubSeq(path, 1, dot - 1) ELSE path

WikinameFromPath(path) ==
  LET parts == StrSplit(SplitExtRoot(path), "/")
      last == parts[Len(parts)]
  IN  IF IsNoteName(last) /\ Len(parts) >= 2
      THEN parts[Len(parts) - 1] \o <<"/">> \o last
      ELSE last

TitleFromPath(path) == StrReplace(WikinameFromPath(path), "_", " ")


(***************************************************************************)
(* Documents and their front matter.  An Optional value is a sequence of   *)
(* no element (None) or of one element.                                    *)
(***************************************************************************)
None == <<>>
Some(x) == <<x>>

\* The source files.  Of a file's text the model keeps what the run reads
\* before the write loop: whether it starts with a front matter delimiter,
\* and the destination of its REDIRECT directive, as written, if it has one.
PathAk == <<"k", "/", "A", "k", ".", "m", "d">>
PathLowerAk == <<"k", "/", "a", "k", ".", "m", "d">>
PathBk == <<"k", "/", "B", "k", ".", "m", "d">>
PathFC == <<"F", "/", "C", ".", "m", "d">>
Paths == {PathAk, PathLowerAk, PathBk, PathFC}

DestAk == <<"a", "k">>
DestBk == <<"b", "K">>
DestFC == <<"f", "/", "c">>
DestMissing == <<"z", "z">>
DestCategory == <<":", "c", "a", "t", "e", "g", "o", "r", "y", ":", "x", "_", "y">>
DestEmptyCategory == <<":", "C", "a", "t", "e", "g", "o", "r", "y", ":">>
RedirectDestinations == {DestAk, DestBk, DestFC, DestMissing, DestCategory}

FileTexts ==
  {[front_matter |-> TRUE, directive |-> None]}
    \cup {[front_matter |-> FALSE, directive |-> d] :
            d \in {None} \cup {Some(r) : r \in RedirectDestinations}}

\* The file texts above are what the run reads of a content: TextOf gives
\* the file text of a content written out as characters.
\* The characters \s matches.
Space == {" ", "\n"}
\* Position of the first character of s at or after from that is in chars
\* (member) or is not in chars (~member), 0 when there is none.
FirstWhere(s, from, chars, member) ==
  IF \E n \in from..Len(s) : (s[n] \in chars) = member
  THEN CHOOSE n \in from..Len(s) :
         /\ (s[n] \in chars) = member
         /\ \A k \in from..(n - 1) : (s[k] \in chars) # member
  ELSE 0

RedirectKeyword ==
  <<"R", "E", "D", "I", "R", "E", "C", "T">>
WikilinkTitle ==
  <<" ", "\"", "w", "i", "k", "i", "l", "i", "n", "k", "\"", ")">>

\* redir_pat matched at position k of s: m['dest'], or None.  The keyword,
\* white space, the anchor in brackets up to the first ']', '(', the
\* destination up to the first white space, then ' "wikilink")'.
MatchRedirectAt(s, k) ==
  LET a == k + Len(RedirectKeyword)
      b == FirstWhere(s, a, Space, FALSE)
      c == FirstWhere(s, b + 1, {"]"}, TRUE)
      p == c + 2
      e == FirstWhere(s, p, Space, TRUE)
  IN  IF /\ a - 1 <= Len(s)
         /\ SubSeq(s, k, a - 1) = RedirectKeyword
         /\ b > a
         /\ s[b] = "["
         /\ c > b + 1
         /\ c + 1 <= Len(s)
         /\ s[c + 1] = "("
         /\ e > p
         /\ StartsWith(DropFirst(s, e - 1), WikilinkTitle)
      THEN Some(SubSeq(s, p, e - 1))
      ELSE None

\* re.search(redir_pat, self.content): the leftmost match, anywhere.
SearchRedirect(s) ==
  LET hits == { k \in 1..Len(s) : MatchRedirectAt(s, k) # None }
  IN  IF hits = {} THEN None
      ELSE MatchRedirectAt(s, CHOOSE k \in hits : \A h \in hits : k <= h)

\* markdown_text.startswith(fm_delimiter) for one of '---', '+++', '{'.
HasFrontMatter(s) ==
  \/ StartsWith(s, <<"-", "-", "-">>)
  \/ StartsWith(s, <<"+", "+", "+">>)
  \/ StartsWith(s, <<"{">>)

TextOf(s) == [front_matter |-> HasFrontMatter(s), directive |-> SearchRedirect(s)]

\* Document.GetRedirect
GetRedirect(text) ==
  IF text.directive = None THEN None ELSE Some(StrTitle(text.directive[1]))

\* Document.MakeFrontMatter: the fields the Site Index and the link engine use.
MakeFrontMatter(text, path) ==
  LET title == TitleFromPath(path)
  IN  [title |-> title,
       slug |-> Slugify(Unidecode(title)),
       wiki_name |-> Some(StrTitle(StrReplace(title, " ", "_"))),
       redirect |-> GetRedirect(text),
       aliases |-> <<>>]

\* Document(content, path, mp) with __post_init__.
Document(text, path) ==
  [path |-> path, fm |-> MakeFrontMatter(text, path)]

\* DocumentFromPath: None for a file that already has front matter.
DocumentFromPath(path, text) ==
  IF text.front_matter THEN None ELSE Some(Document(text, path))

\* Document.URLPath
URLPath(d) ==
  LET parts == StrSplit(d.path, "/")
      segments == IF Len(parts) > 1 THEN SubSeq(parts, 1, 1) ELSE <<>>
  IN  <<"/">> \o StrJoin(Append(segments, d.fm.slug), <<"/">>)

(***************************************************************************)
(* Site Index.  A dict is a function; a Document object is named by its    *)
(* position in documents, so that the dicts share the objects.             *)
(***************************************************************************)
EmptyDict == <<>>
Put(dict, key, value) ==
  [x \in DOMAIN dict \cup {key} |-> IF x = key THEN value ELSE dict[x]]

\* The load loop without its assertion.
WikinameTakenNever(docs, wiki_name) == FALSE

\* The load loop's assertion: wiki_name not in documents.
WikinameTaken(docs, wiki_name) ==
  \E n \in 1..Len(docs) : docs[n].fm.wiki_name = wiki_name

RECURSIVE ByPathLoop(_, _, _)
\* The loop of DocumentsByPath from document n on; None when its assertion
\* fails.
ByPathLoop(docs, n, by) ==
  IF n > Len(docs) THEN Some(by)
  ELSE IF docs[n].path \in DOMAIN by THEN None
  ELSE LET verbatim == Put(by, docs[n].path, n)
           path_lower == StrLower(docs[n].path)
       IN  ByPathLoop(docs, n + 1,
                      IF path_lower \in DOMAIN verbatim THEN verbatim
                      ELSE Put(verbatim, path_lower, n))

DocumentsByPath(docs) == ByPathLoop(docs, 1, EmptyDict)

RECURSIVE ByWikinameLoop(_, _, _)
ByWikinameLoop(docs, n, by) ==
  IF n > Len(docs) THEN by
  ELSE IF docs[n].fm.wiki_name = None THEN ByWikinameLoop(docs, n + 1, by)
  ELSE ByWikinameLoop(docs, n + 1,
                      Put(by, StrTitle(docs[n].fm.wiki_name[1]), n))

DocumentsByWikiname(docs) == ByWikinameLoop(docs, 1, EmptyDict)

\* re.match(':'+CATEGORY_TAG+':', s, flags=re.IGNORECASE)
MatchesCategoryTag(s) == MatchIgnoreCase(<<":">> \o CATEGORY_TAG \o <<":">>, s)

(***************************************************************************)
(* Document bodies.  A body is a sequence of items; an item is a link      *)
(* written [anchor](destination "wikilink") or literal text.  The text     *)
(* between the links plays no part in the passes and is left out.          *)
(***************************************************************************)
LinkItem(anchor, destination) ==
  [wikilink |-> TRUE, anchor |-> anchor, destination |-> destination,
   text |-> <<>>]
TextItem(text) ==
  [wikilink |-> FALSE, anchor |-> <<>>, destination |-> <<>>, text |-> text]

BodyLinks ==
  { LinkItem(<<"c", "h", "o", "r", "d">>, DestAk),
    LinkItem(<<"C", "H">>, <<"A", "K">>),
    LinkItem(<<"o", "n">>, DestBk),
    LinkItem(<<"n", "o">>, DestMissing),
    LinkItem(<<"t", "a", "g">>, DestCategory),
    LinkItem(<<"e">>, DestEmptyCategory),
    LinkItem(CATEGORY_TAG \o <<":", "x">>, StrLower(CATEGORY_TAG) \o <<":", "x">>),
    LinkItem(<<"i", "m">>, IMAGE_TAG \o <<":", "p", ".", "j">>) }

Bodies == UNION { [1..n -> BodyLinks] : n \in 0..MaxLinks }

\* Document.RemoveCategoryLinks: the pattern is on the text in the brackets.
IsCategoryLink(item) ==
  /\ item.wikilink
  /\ \/ /\ MatchIgnoreCase(CATEGORY_TAG \o <<":">>, item.anchor)
        /\ Len(item.anchor) > Len(CATEGORY_TAG) + 1
     \/ /\ MatchIgnoreCase(<<":">> \o CATEGORY_TAG \o <<":">>, item.anchor)
        /\ Len(item.anchor) > Len(CATEGORY_TAG) + 2
RemoveCategoryLinks(content) ==
  [n \in 1..Len(content) |->
     IF IsCategoryLink(content[n]) THEN TextItem(<<>>) ELSE content[n]]

\* Document.HandleImageTags
IsImageLink(item) ==
  /\ item.wikilink
  /\ MatchIgnoreCase(IMAGE_TAG \o <<":">>, item.destination)
  /\ Len(item.destination) > Len(IMAGE_TAG) + 1
ImageShortcode(item) ==
  LET group == DropFirst(item.destination, Len(IMAGE_TAG) + 1)
      image_path == ImagesDir \o <<UpperChar(group[1])>> \o Tail(group)
  IN  ImageOpen \o image_path \o ImageClose
HandleImageTags(content) ==
  [n \in 1..Len(content) |->
     IF IsImageLink(content[n]) THEN TextItem(ImageShortcode(content[n]))
     ELSE content[n]]

(***************************************************************************)
(* Document.FixMonospace, on the content as text.                          *)
(***************************************************************************)
\* str.splitlines(keepends=False) for text whose line ends are "\n".
SplitLines(s) ==
  IF s = <<>> THEN <<>>
  ELSE LET parts == StrSplit(s, "\n")
       IN  IF parts[Len(parts)] = <<>>
           THEN SubSeq(parts, 1, Len(parts) - 1)
           ELSE parts

\* _outside, _inside
Outside == 0
Inside == 1
\* '```'
Fence == <<"q~", "q~", "q~">>
\* re.match('^`(?P<monospace>.*)`$', line) is not None
MatchesMonospace(line) ==
  /\ Len(line) >= 2
  /\ line[1] = "q~"
  /\ line[Len(line)] = "q~"
\* m['monospace']
Monospace(line) == SubSeq(line, 2, Len(line) - 1)

RECURSIVE FixMonospaceLoop(_, _, _, _)
\* The for loop of FixMonospace from line k on.
FixMonospaceLoop(lines, k, state, result) ==
  IF k > Len(lines) THEN result
  ELSE IF state = Outside
  THEN IF MatchesMonospace(lines[k])
       THEN FixMonospaceLoop(lines, k + 1, Inside,
                             result \o <<<<>>, Fence, Monospace(lines[k])>>)
       ELSE FixMonospaceLoop(lines, k + 1, Outside, Append(result, lines[k]))
  ELSE IF MatchesMonospace(lines[k])
       THEN FixMonospaceLoop(lines, k + 1, Inside,
                             result \o <<Monospace(lines[k])>>)
       ELSE FixMonospaceLoop(lines, k + 1, Outside,
                             result \o <<Fence, <<>>, lines[k]>>)

\* The content of the Document FixMonospace returns.
FixMonospace(text) ==
  StrJoin(FixMonospaceLoop(SplitLines(text), 1, Outside, <<>>), <<"\n">>)
    \o <<"\n">>

(***************************************************************************)
(* The front matter text of a document: FrontMatter.ToString.              *)
(***************************************************************************)
\* The characters of the model in code point order, for sorted().
CodePoints ==
  <<"\n", " ", "\"", "'", "+", "-", ".", "/",
    "0", "1", "2", "3", "4", "5", "6", "7", "8", "9", ":", "<", ">",
    "A", "B", "C", "D", "E", "F", "G", "H", "I", "J", "K", "L", "M",
    "N", "O", "P", "Q", "R", "S", "T", "U", "V", "W", "X", "Y", "Z",
    "[", "]", "_", "q~",
    "a", "b", "c", "d", "e", "f", "g", "h", "i", "j", "k", "l", "m",
    "n", "o", "p", "q", "r", "s", "t", "u", "v", "w", "x", "y", "z",
    "{", "}", "O~", "o~", "A~", "a~", "E~", "e~", "L~", "l~", "b~", "#~">>
CodeOf ==
  [c \in { CodePoints[n] : n \in 1..Len(CodePoints) } |->
     IndexOfChar(c, CodePoints)]

RECURSIVE StrLess(_, _)
\* a < b for two str.
StrLess(a, b) ==
  IF b = <<>> THEN FALSE
  ELSE IF a = <<>> THEN TRUE
  ELSE IF a[1] = b[1] THEN StrLess(Tail(a), Tail(b))
  ELSE CodeOf[a[1]] < CodeOf[b[1]]

RECURSIVE Insert(_, _)
Insert(sorted, x) ==
  IF sorted = <<>> THEN <<x>>
  ELSE IF StrLess(x, sorted[1]) THEN <<x>> \o sorted
  ELSE <<sorted[1]>> \o Insert(Tail(sorted), x)

RECURSIVE Sorted(_)
\* sorted(strings)
Sorted(strings) ==
  IF strings = <<>> THEN <<>>
  ELSE Insert(Sorted(SubSeq(strings, 1, Len(strings) - 1)),
              strings[Len(strings)])

\* repr of a list of str
ReprList(strings) ==
  <<"[">> \o StrJoin([n \in 1..Len(strings) |-> Repr(strings[n])], <<",", " ">>)
    \o <<"]">>

\* urllib.parse.unquote_plus for text without a % escape.
UnquotePlus(s) == StrReplace(s, "+", " ")
\* str.capitalize
StrCapitalize(s) ==
  [n \in 1..Len(s) |-> IF n = 1 THEN UpperChar(s[n]) ELSE LowerChar(s[n])]

\* MakeFrontMatter, the walk over the link nodes: a link whose url matches
\* CATEGORY_TAG + ':' gives a category, every other wikilink a Wikilink.
IsCategoryNode(item) ==
  item.wikilink /\ MatchIgnoreCase(CATEGORY_TAG \o <<":">>, item.destination)
IsWikilinkNode(item) == item.wikilink /\ ~IsCategoryNode(item)
CategoryOfNode(item) ==
  StrCapitalize(StrReplace(
    UnquotePlus(DropFirst(item.destination, Len(CATEGORY_TAG) + 1)), "_", " "))
ImagePathOf(item) ==
  LET group == DropFirst(item.destination, Len(IMAGE_TAG) + 1)
  IN  ImagesDir \o <<UpperChar(group[1])>> \o Tail(group)

DefaultDate ==
  <<"2", "0", "0", "5", "-", "0", "1", "-", "0", "1", "T", "0", "0", ":", "0",
    "0", ":", "0", "0", "+", "0", "1", ":", "0", "0">>

\* The FrontMatter of a document whose content has the links of body: fm
\* with the fields MakeFrontMatter fills from the content.
FrontMatterOf(fm, body) ==
  LET cats == SelectSeq(body, IsCategoryNode)
      wikis == SelectSeq(body, IsWikilinkNode)
      images == SelectSeq(body, IsImageLink)
  IN  [title |-> fm.title,
       slug |-> fm.slug,
       wiki_name |-> fm.wiki_name,
       redirect |-> fm.redirect,
       aliases |-> fm.aliases,
       date |-> DefaultDate,
       categories |-> [n \in 1..Len(cats) |-> CategoryOfNode(cats[n])],
       wikilinks |-> [n \in 1..Len(wikis) |-> wikis[n].destination],
       image_paths |-> [n \in 1..Len(images) |-> ImagePathOf(images[n])]]

\* The fixed pieces of the text ToString formats the fields into.
Template ==
  [open |->
     <<"-", "-", "-", "\n", "t", "i", "t", "l", "e", ":", " ", "\"">>,
   slug |->
     <<"\"", "\n", "s", "l", "u", "g", ":", " ", "\"">>,
   date |->
     <<"\"", "\n", "d", "a", "t", "e", ":", " ">>,
   kategorie |->
     <<"\n", "k", "a", "t", "e", "g", "o", "r", "i", "e", ":", " ">>,
   draft |->
     <<"\n", "d", "r", "a", "f", "t", ":", " ", "f", "a", "l", "s", "e", "\n">>,
   wikilinks |->
     <<"w", "i", "k", "i", "l", "i", "n", "k", "s", ":", " ">>,
   aliases |->
     <<"a", "l", "i", "a", "s", "e", "s", ":", " ">>,
   images |->
     <<"i", "m", "a", "g", "e", "s", ":", "\n">>,
   image_path |->
     <<" ", " ", "-", " ", "p", "a", "t", "h", ":", " ", "\"">>,
   close |->
     <<"-", "-", "-", "\n">>]

\* aliases_text of ToString.
AliasesText(aliases) ==
  IF aliases # <<>> THEN Template.aliases \o ReprList(Sorted(aliases)) \o <<"\n">>
  ELSE <<>>

\* image_text of ToString.
ImageText(image_paths) ==
  IF image_paths # <<>>
  THEN Template.images
         \o StrJoin([n \in 1..Len(image_paths) |->
                       Template.image_path \o Sorted(image_paths)[n] \o <<"\"">>],
                    <<"\n">>)
         \o <<"\n">>
  ELSE <<>>

\* FrontMatter.ToString (the TLC module has a ToString of its own), for a
\* page without a contributor.
FrontMatterToString(fm) ==
  Template.open \o fm.title \o Template.slug \o fm.slug \o Template.date \o fm.date
    \o Template.kategorie \o ReprList(Sorted(fm.categories)) \o Template.draft
    \o Template.wikilinks \o ReprList(Sorted(fm.wikilinks)) \o <<"\n">>
    \o AliasesText(fm.aliases) \o ImageText(fm.image_paths) \o Template.close

(***************************************************************************)
(* The link engine: the closures of Document.TryToFixWikilinks.            *)
(***************************************************************************)
\* The destination taken as written.
DestWikinameRaw(dest) == dest

\* dest_wikiname = Wikiname(m['dest'].title())
DestWikiname(dest) == StrTitle(dest)

RedirectExists(wikiname, redirs, by_wn) ==
  /\ wikiname \in DOMAIN redirs
  /\ redirs[wikiname] \in DOMAIN by_wn

\* The loop without its first assertion.
RedirectLoopNever(wikiname, seen) == FALSE

\* The condition the loop's first assertion rejects.
RedirectLoop(wikiname, seen) == wikiname \in seen

\* if doc is not None and doc.fm.redirect is not None: raise ValueError
RedirectsToRedirection(docs, d) ==
  /\ d # 0
  /\ docs[d].fm.redirect # None

\* The document the link is pointed at once ResolveRedirect has returned d
\* (0 for None): lines 241-248.
TargetDoc(d, dest, by_wn) ==
  IF d # 0 THEN d
  ELSE IF DestWikiname(dest) \in DOMAIN by_wn THEN by_wn[DestWikiname(dest)]
  ELSE 0

DestRef(d) == StrReplace(d.fm.title, " ", "_") \o MdExt

RelrefLink(anchor, dest_ref) ==
  <<"[">> \o anchor \o RelrefOpen \o dest_ref \o RelrefClose

\* The annotation without the text it is given.
annotate_invalid_comment_only(s, reason) ==
  CommentOpen \o reason \o CommentClose

annotate_invalid(s, reason) == s \o CommentOpen \o reason \o CommentClose

\* re.search(':'+CATEGORY_TAG+':(?P<category>.*):?', dest, re.IGNORECASE),
\* for a dest the tag starts: the group takes the rest of dest.
CategoryOf(dest) ==
  IF MatchesCategoryTag(dest)
  THEN Some(DropFirst(dest, Len(CATEGORY_TAG) + 2))
  ELSE None

CategoryLink(anchor, category) ==
  <<"[">> \o anchor \o KategorieOpen \o Slugify(Unidecode(category))
    \o KategoriaTitle \o StrReplace(category, "_", " ") \o KategoriaClose

DoesNotExistMessage(self, dest) ==
  Repr(self.fm.title) \o PosixPathOpen \o self.path \o LinksTo \o Repr(dest)
    \o PosixPathOpen \o NoPathExists \o DoesNotExist

CouldNotFindTag ==
  <<"C", "o", "u", "l", "d", " ", "n", "o", "t", " ", "f", "i", "n", "d", " ",
    "t", "h", "e", " ", "c", "a", "t", "e", "g", "o", "r", "y", " ", "t", "a",
    "g">>

\* What repl returns for a link of document self when ResolveRedirect has
\* returned d: lines 241-269.
Replacement(self, item, d, docs, by_p, by_wn) ==
  LET target_doc == TargetDoc(d, item.destination, by_wn)
  IN  IF target_doc # 0
      THEN RelrefLink(item.anchor, DestRef(docs[target_doc]))
      ELSE IF NoPathExists \in DOMAIN by_p
      THEN RelrefLink(item.anchor,
                      LET parts == StrSplit(docs[by_p[NoPathExists]].path, "/")
                      IN  parts[Len(parts)])
      ELSE IF MatchesCategoryTag(item.destination)
      THEN IF CategoryOf(item.destination) = None
           THEN annotate_invalid(item.anchor, CouldNotFindTag)
           ELSE CategoryLink(item.anchor, CategoryOf(item.destination)[1])
      ELSE annotate_invalid(item.anchor,
                            DoesNotExistMessage(self, item.destination))

\* Position of the first link of content at or after position from, 0 when
\* there is none: the next match of re.sub.
NextMatch(content, from) ==
  IF \E n \in from..Len(content) : content[n].wikilink
  THEN CHOOSE n \in from..Len(content) :
         /\ content[n].wikilink
         /\ \A k \in from..(n - 1) : ~content[k].wikilink
  ELSE 0

\* The text of the items first..last that are not links.
CopyText(content, first, last) ==
  [n \in 1..(last - first + 1) |-> content[first + n - 1].text]

\* The write loop without its skip.
NotWrittenNever(d) == FALSE

\* if doc.fm.redirect is not None: continue (write loop).
NotWritten(d) == d.fm.redirect # None

\* WriteContent without its test of dry_run.
WriteContentIgnoringDryRun(content_bytes, existing, dry) ==
  IF existing = Some(content_bytes)
  THEN [result |-> FALSE, file |-> existing]
  ELSE [result |-> TRUE, file |-> Some(content_bytes)]

\* WriteContent(content, path, dry_run) on a path whose file is existing
\* (None when there is no file): the result and the file afterwards.
WriteContent(content_bytes, existing, dry) ==
  IF existing = Some(content_bytes)
  THEN [result |-> FALSE, file |-> existing]
  ELSE [result |-> TRUE,
        file |-> IF ~dry THEN Some(content_bytes) ELSE existing]

\* A pass that rewrites the Document it is called on and returns it: the
\* object is constructed anew in place, its front matter recomputed.
PassResultInPlace(docs, n, text) ==
  [docs |-> [docs EXCEPT ![n] = Document(text, docs[n].path)],
   new |-> Document(text, docs[n].path)]

\* return Document(<new content>, self.path, self.mp), the last statement of
\* RemoveCategoryLinks, HandleImageTags, TryToFixWikilinks and FixMonospace
\* called on document n: the documents afterwards and the Document returned,
\* whose front matter __post_init__ computes from the new content.  text is
\* what the model keeps of that content; the passes add no directive to it.
PassResult(docs, n, text) ==
  [docs |-> docs, new |-> Document(text, docs[n].path)]

\* Bytes no run produces, for a file left by something else.
OtherBytes == <<"o", "l", "d">>

(***************************************************************************)
(* The run (__main__).                                                     *)
(***************************************************************************)
VARIABLES
  files,                 \* source directory: path -> text of the file
  dry_run,               \* args.dry_run
  pc,                    \* position of the run
  err,                   \* the exception that ended the run, "" if none
  todo,                  \* markdown_paths not yet iterated
  documents,             \* the dict documents, in insertion order
  by_path,               \* path -> position in documents
  by_wikiname,           \* Wikiname -> position in documents
  redirects,             \* Wikiname -> Wikiname
  i,                     \* position of the discovery / write loop
  source,                \* body of the document being converted
  content,               \* the body as TryToFixWikilinks receives it
  out,                   \* texts that replace the items scanned so far
  wikiname_title,        \* ResolveRedirect: the name the loop is at
  visited,               \* ResolveRedirect: visited
  doc,                   \* ResolveRedirect: doc (0 for None)
  writing_result,        \* path -> what WriteContent returned
  number_files_written,
  write_calls,           \* paths WriteContent was called with, in order
  files_modified,        \* paths whose file WriteContent wrote
  printed,               \* the count the run prints at its end
  converted,             \* the Document the chain of passes has returned
  arg,                   \* a function called on its own: its arguments
  ret                    \* a function called on its own: what it returned

vars ==
  <<files, dry_run, pc, err, todo, documents, by_path, by_wikiname, redirects,
    i, source, content, out, wikiname_title, visited, doc, writing_result,
    number_files_written, write_calls, files_modified, printed, converted,
    arg, ret>>

unit == <<arg, ret>>
index == <<by_path, by_wikiname, redirects>>
repl_locals == <<wikiname_title, visited, doc>>
conversion == <<source, content, out, converted>>
results == <<writing_result, number_files_written, write_calls,
             files_modified, printed>>

Corpora ==
  UNION { [P -> FileTexts] :
            P \in { Q \in SUBSET Paths : Cardinality(Q) <= MaxDocs } }

Init ==
  /\ files \in Corpora
  /\ dry_run \in BOOLEAN
  /\ pc = "start"
  /\ err = ""
  /\ todo = {}
  /\ documents = <<>>
  /\ by_path = EmptyDict
  /\ by_wikiname = EmptyDict
  /\ redirects = EmptyDict
  /\ i = 0
  /\ source = <<>>
  /\ content = <<>>
  /\ out = <<>>
  /\ wikiname_title = <<>>
  /\ visited = {}
  /\ doc = 0
  /\ writing_result = EmptyDict
  /\ number_files_written = 0
  /\ write_calls = <<>>
  /\ files_modified = {}
  /\ printed = None
  /\ converted = None
  /\ arg = None
  /\ ret = None

\* An uncaught exception ends the run where it is.
Raise(exception) ==
  /\ pc' = "aborted"
  /\ err' = exception

\* markdown_paths = MarkdownPaths(...), and the check that it is not empty.
FindMarkdownPaths ==
  /\ pc = "start"
  /\ IF DOMAIN files = {}
     THEN /\ Raise("NoMarkdownFiles")
          /\ UNCHANGED todo
     ELSE /\ pc' = "load"
          /\ todo' = DOMAIN files
          /\ UNCHANGED err
  /\ UNCHANGED <<unit, files, dry_run, documents, index, i, conversion, repl_locals,
                 results>>

\* One iteration of the load loop.  markdown_paths is a set: any order.
LoadDocument(path) ==
  /\ pc = "load"
  /\ path \in todo
  /\ LET loaded == DocumentFromPath(path, files[path])
     IN  IF loaded = None
         THEN /\ todo' = todo \ {path}
              /\ UNCHANGED <<pc, err, documents>>
         ELSE IF WikinameTaken(documents, loaded[1].fm.wiki_name)
         THEN /\ Raise("DuplicateWikiname")
              /\ UNCHANGED <<todo, documents>>
         ELSE /\ todo' = todo \ {path}
              /\ documents' = Append(documents, loaded[1])
              /\ UNCHANGED <<pc, err>>
  /\ UNCHANGED <<unit, files, dry_run, index, i, conversion, repl_locals, results>>

\* by_path, by_wikiname and the empty redirects, once every path is loaded.
BuildSiteIndex ==
  /\ pc = "load"
  /\ todo = {}
  /\ IF DocumentsByPath(documents) = None
     THEN /\ Raise("DuplicatePath")
          /\ UNCHANGED <<index, i>>
     ELSE /\ by_path' = DocumentsByPath(documents)[1]
          /\ by_wikiname' = DocumentsByWikiname(documents)
          /\ redirects' = EmptyDict
          /\ i' = 1
          /\ pc' = "discover"
          /\ UNCHANGED err
  /\ UNCHANGED <<unit, files, dry_run, todo, documents, conversion, repl_locals,
                 results>>

\* The discovery loop without its append.
AppendAliasNowhere(docs, target, alias) == docs

\* target_doc.fm.aliases.append(alias) on the shared Document object.
AppendAlias(docs, target, alias) ==
  [docs EXCEPT ![target].fm.aliases = Append(@, alias)]

\* One iteration of the redirect discovery loop.
DiscoverRedirect ==
  /\ pc = "discover"
  /\ i <= Len(documents)
  /\ LET d == documents[i]
     IN  IF d.fm.redirect = None
         THEN UNCHANGED <<documents, redirects>>
         ELSE IF d.fm.redirect[1] \in DOMAIN by_wikiname
         THEN /\ documents' = AppendAlias(documents,
                                          by_wikiname[d.fm.redirect[1]],
                                          URLPath(d))
              /\ IF d.fm.wiki_name # None
                 THEN redirects' = Put(redirects, StrTitle(d.fm.wiki_name[1]),
                                       d.fm.redirect[1])
                 ELSE UNCHANGED redirects
         ELSE \* a redirect to a category page, or a bad redirect: logged
              UNCHANGED <<documents, redirects>>
  /\ i' = i + 1
  /\ UNCHANGED <<unit, files, dry_run, pc, err, todo, by_path, by_wikiname,
                 conversion, repl_locals, results>>

\* The discovery loop is over: writing_result = {}, number_files_written = 0.
StartWriteLoop ==
  /\ pc = "discover"
  /\ i > Len(documents)
  /\ writing_result' = EmptyDict
  /\ number_files_written' = 0
  /\ i' = 1
  /\ pc' = "write"
  /\ UNCHANGED <<unit, files, dry_run, err, todo, documents, index, conversion,
                 repl_locals, write_calls, files_modified, printed>>

\* Write loop: a document that is a redirect is not written.
SkipRedirect ==
  /\ pc = "write"
  /\ i <= Len(documents)
  /\ NotWritten(documents[i])
  /\ i' = i + 1
  /\ UNCHANGED <<unit, files, dry_run, pc, err, todo, documents, index, conversion,
                 repl_locals, results>>

\* re.sub with the items before Len(scanned) + 1 done: it copies the text up
\* to the next link and calls repl, which calls ResolveRedirect and reaches
\* the head of its loop; with no link left, TryToFixWikilinks returns.
Substitute(body, scanned) ==
  LET k == NextMatch(body, Len(scanned) + 1)
  IN  IF k # 0
      THEN /\ out' = scanned \o CopyText(body, Len(scanned) + 1, k - 1)
           /\ wikiname_title' = StrTitle(DestWikiname(body[k].destination))
           /\ pc' = "resolve"
      ELSE /\ out' = scanned \o CopyText(body, Len(scanned) + 1, Len(body))
           /\ wikiname_title' = <<>>
           /\ pc' = "emit"

\* Write loop: RemoveCategoryLinks().HandleImageTags() on the document's
\* body, and the call of TryToFixWikilinks.  The body is read here, where the
\* run first uses it.
BeginConversion(body) ==
  /\ pc = "write"
  /\ i <= Len(documents)
  /\ ~NotWritten(documents[i])
  /\ source' = body
  /\ content' = HandleImageTags(RemoveCategoryLinks(body))
  /\ Substitute(HandleImageTags(RemoveCategoryLinks(body)), <<>>)
  /\ visited' = {}
  /\ doc' = 0
  /\ LET passed == PassResult(documents, i, files[documents[i].path])
     IN  /\ documents' = passed.docs
         /\ converted' = Some(passed.new)
  /\ UNCHANGED <<unit, files, dry_run, err, todo, index, i, results>>

\* One iteration of the while loop of ResolveRedirect.
RedirectStep ==
  /\ pc = "resolve"
  /\ RedirectExists(wikiname_title, redirects, by_wikiname)
  /\ LET next == StrTitle(redirects[wikiname_title])
     IN  IF RedirectLoop(wikiname_title, visited)
         THEN /\ Raise("RedirectLoop")
              /\ UNCHANGED repl_locals
         ELSE IF next \notin DOMAIN by_wikiname
         THEN /\ Raise("KeyError")
              /\ UNCHANGED repl_locals
         ELSE IF Some(next) # documents[by_wikiname[next]].fm.wiki_name
         THEN /\ Raise("WikinameMismatch")
              /\ UNCHANGED repl_locals
         ELSE /\ visited' = visited \cup {wikiname_title}
              /\ wikiname_title' = next
              /\ doc' = by_wikiname[next]
              /\ UNCHANGED <<pc, err>>
  /\ UNCHANGED <<unit, files, dry_run, todo, documents, index, i, conversion,
                 results>>

\* The loop of ResolveRedirect is over: its last check, the rest of repl,
\* and re.sub going on to the next link.
ReplEnd ==
  /\ pc = "resolve"
  /\ ~RedirectExists(wikiname_title, redirects, by_wikiname)
  /\ LET item == content[Len(out) + 1]
         target_doc == TargetDoc(doc, item.destination, by_wikiname)
     IN  IF RedirectsToRedirection(documents, doc)
         THEN /\ Raise("RedirectToRedirection")
              /\ UNCHANGED <<out, repl_locals>>
         ELSE IF target_doc # 0 /\ documents[target_doc].path \notin DOMAIN by_path
         THEN /\ Raise("PathNotIndexed")
              /\ UNCHANGED <<out, repl_locals>>
         ELSE /\ Substitute(content,
                            Append(out, Replacement(documents[i], item, doc,
                                                    documents, by_path,
                                                    by_wikiname)))
              /\ visited' = {}
              /\ doc' = 0
              /\ UNCHANGED err
  /\ UNCHANGED <<unit, files, dry_run, todo, documents, index, i, source, content,
                 converted, results>>

\* updated_content of the write loop: the front matter text of the loaded
\* document, then the content FixMonospace returns for the converted body.
UpdatedContent ==
  FrontMatterToString(FrontMatterOf(documents[i].fm, source))
    \o FixMonospace(StrJoin(out, <<>>))

\* TryToFixWikilinks has returned: FixMonospace, and the converted document
\* is written.  The file at the output path is absent, holds the same bytes,
\* or holds other bytes.
WriteDocument(existing) ==
  /\ pc = "emit"
  /\ \E updated_content \in {UpdatedContent} :
       LET path == documents[i].path
           before == IF existing = "absent" THEN None
                     ELSE IF existing = "identical" THEN Some(updated_content)
                     ELSE Some(OtherBytes)
       IN  \E written \in {WriteContent(updated_content, before, dry_run)} :
             /\ writing_result' = Put(writing_result, path, written.result)
             /\ files_modified' = IF written.file # before
                                  THEN files_modified \cup {path}
                                  ELSE files_modified
             /\ write_calls' = Append(write_calls, path)
  /\ number_files_written' = number_files_written + 1
  /\ i' = i + 1
  /\ source' = <<>>
  /\ content' = <<>>
  /\ out' = <<>>
  /\ converted' = None
  /\ pc' = "write"
  /\ UNCHANGED <<unit, files, dry_run, err, todo, documents, index, repl_locals,
                 printed>>

\* The write loop is over: the run prints its count.
PrintSummary ==
  /\ pc = "write"
  /\ i > Len(documents)
  /\ printed' = Some(number_files_written)
  /\ pc' = "done"
  /\ UNCHANGED <<unit, files, dry_run, err, todo, documents, index, i, conversion,
                 repl_locals, writing_result, number_files_written,
                 write_calls, files_modified>>

Next ==
  \/ FindMarkdownPaths
  \/ \E path \in Paths : LoadDocument(path)
  \/ BuildSiteIndex
  \/ DiscoverRedirect
  \/ StartWriteLoop
  \/ SkipRedirect
  \/ \E body \in Bodies : BeginConversion(body)
  \/ RedirectStep
  \/ ReplEnd
  \/ \E existing \in {"absent", "identical", "different"} : WriteDocument(existing)
  \/ PrintSummary

Spec == Init /\ [][Next]_vars

TypeOK ==
  /\ pc \in {"start", "load", "discover", "write", "resolve", "emit", "done",
             "aborted"}
  /\ i \in 0..(MaxDocs + 1)

(***************************************************************************)
(* The functions of the module called on their own, outside a run: arg     *)
(* holds the arguments of the call, ret what the call returned.            *)
(***************************************************************************)
\* The variables of the run when nothing runs.
NoRun ==
  /\ files = EmptyDict
  /\ dry_run = FALSE
  /\ err = ""
  /\ todo = {}
  /\ documents = <<>>
  /\ by_path = EmptyDict
  /\ by_wikiname = EmptyDict
  /\ redirects = EmptyDict
  /\ i = 0
  /\ source = <<>>
  /\ content = <<>>
  /\ out = <<>>
  /\ wikiname_title = <<>>
  /\ visited = {}
  /\ doc = 0
  /\ writing_result = EmptyDict
  /\ number_files_written = 0
  /\ write_calls = <<>>
  /\ files_modified = {}
  /\ printed = None
  /\ converted = None

run ==
  <<files, dry_run, err, todo, documents, index, i, conversion, repl_locals,
    results>>

\* FixMonospace called on a content of up to MaxLines lines, with or without
\* a line end after the last line.
MonospaceLines ==
  { <<>>, <<"a">>, <<"q~">>, <<"q~", "q~">>, <<"q~", "l", "q~">>,
    <<"q~", "a", "q~", " ", "q~">> }
MonospaceContents ==
  { StrJoin(lines, <<"\n">>) \o end :
      lines \in UNION { [1..n -> MonospaceLines] : n \in 0..MaxLines },
      end \in {<<>>, <<"\n">>} }

FixMonospaceInit ==
  /\ pc = "call"
  /\ arg \in MonospaceContents
  /\ ret = None
  /\ NoRun

CallFixMonospace ==
  /\ pc = "call"
  /\ ret' = Some(FixMonospace(arg))
  /\ pc' = "return"
  /\ UNCHANGED <<arg, run>>

FixMonospaceNext == CallFixMonospace

FixMonospaceSpec == FixMonospaceInit /\ [][FixMonospaceNext]_vars

\* Slugify called on a string, then on what it returned.
SlugChars == {"a", "B", "L~", "1", "_", "-", " ", "/"}
SlugInputs == UNION { [1..n -> SlugChars] : n \in 0..MaxSlugLen }

SlugifyInit ==
  /\ pc = "call"
  /\ arg \in SlugInputs
  /\ ret = <<>>
  /\ NoRun

CallSlugify ==
  /\ pc = "call"
  /\ ret' = <<Slugify(arg)>>
  /\ pc' = "return"
  /\ UNCHANGED <<arg, run>>

CallSlugifyOnResult ==
  /\ pc = "return"
  /\ Len(ret) = 1
  /\ ret' = Append(ret, Slugify(ret[1]))
  /\ UNCHANGED <<pc, arg, run>>

SlugifyNext == CallSlugify \/ CallSlugifyOnResult

SlugifySpec == SlugifyInit /\ [][SlugifyNext]_vars

\* A Document made from a content and a path, as the load loop makes it.
Directive(dest) ==
  RedirectKeyword \o <<" ", "[", "x", "]", "(">> \o dest \o WikilinkTitle
RedirectContents ==
  { before \o middle \o after :
      before \in { <<>>, <<"1", ".", " ", " ">>, <<"x", "\n">>, <<"s", "e", "e", " ">>,
                   <<"-", "-", "-", "\n">> },
      middle \in { <<>>, Directive(DestBk), Directive(DestMissing),
                   Directive(DestCategory),
                   StrLower(RedirectKeyword) \o <<" ", "[", "x", "]", "(">>
                     \o DestBk \o WikilinkTitle,
                   RedirectKeyword \o <<"[", "x", "]", "(">> \o DestBk
                     \o WikilinkTitle,
                   <<"[", "x", "]", "(">> \o DestBk \o WikilinkTitle },
      after \in { <<>>, <<"\n", "y">> } }

DocumentInit ==
  /\ pc = "call"
  /\ arg \in [content : RedirectContents, path : {PathAk, PathFC}]
  /\ ret = None
  /\ NoRun

CallDocumentFromPath ==
  /\ pc = "call"
  /\ ret' = Some(DocumentFromPath(arg.path, TextOf(arg.content)))
  /\ pc' = "return"
  /\ UNCHANGED <<arg, run>>

DocumentNext == CallDocumentFromPath

DocumentSpec == DocumentInit /\ [][DocumentNext]_vars

\* DocumentsByPath called on documents in any order, two of them possibly
\* with one path, or with paths that differ in case only.
PathLowerFC == <<"f", "/", "c", ".", "m", "d">>
ByPathDocuments ==
  { Document([front_matter |-> FALSE, directive |-> None], p) :
      p \in Paths \cup {PathLowerFC} }

DocumentsByPathInit ==
  /\ pc = "call"
  /\ arg \in UNION { [1..n -> ByPathDocuments] : n \in 0..MaxDocs }
  /\ ret = None
  /\ NoRun

CallDocumentsByPath ==
  /\ pc = "call"
  /\ ret' = [by_path |-> DocumentsByPath(arg)]
  /\ pc' = "return"
  /\ UNCHANGED <<arg, run>>

DocumentsByPathNext == CallDocumentsByPath

DocumentsByPathSpec == DocumentsByPathInit /\ [][DocumentsByPathNext]_vars

\* WriteContent called again and again on one path: the content to write,
\* the file it finds at the path (None when there is none) and dry_run.
ContentBytes ==
  { <<>>, <<"a">>, <<"b">>, <<"a", "b">>, OtherBytes }

WriteContentInit ==
  /\ pc = "call"
  /\ arg \in [content : ContentBytes,
              file : {None} \cup { Some(c) : c \in ContentBytes },
              dry_run : BOOLEAN]
  /\ ret = None
  /\ NoRun

CallWriteContent ==
  /\ pc = "call"
  /\ ret' = Some(WriteContent(arg.content, arg.file, arg.dry_run))
  /\ pc' = "return"
  /\ UNCHANGED <<arg, run>>

\* The next call finds the file the call before it left.
WriteContentAgain(content_bytes, dry) ==
  /\ pc = "return"
  /\ arg' = [content |-> content_bytes, file |-> ret[1].file, dry_run |-> dry]
  /\ ret' = None
  /\ pc' = "call"
  /\ UNCHANGED run

WriteContentNext ==
  \/ CallWriteContent
  \/ \E content_bytes \in ContentBytes, dry \in BOOLEAN :
       WriteContentAgain(content_bytes, dry)

WriteContentSpec == WriteContentInit /\ [][WriteContentNext]_vars

(***************************************************************************)
(* Vocabulary of the properties.                                           *)
(***************************************************************************)
\* Exceptions raised inside TryToFixWikilinks.
LinkErrors ==
  {"RedirectLoop", "RedirectToRedirection", "KeyError", "WikinameMismatch",
   "PathNotIndexed"}

\* Positions of the links of the document under conversion that repl has
\* replaced; their replacements are out at the same positions.
Replaced == { n \in 1..Len(out) : content[n].wikilink }

\* repl was ended by an exception; the link it was called for.
ReplRaised == pc = "aborted" /\ err \in LinkErrors
CurrentLink == content[Len(out) + 1]

\* The file a relref names for document d: its title with spaces replaced by
\* underscores, plus '.md'.
FileOf(d) == StrReplace(TitleFromPath(d.path), " ", "_") \o MdExt

\* The loaded documents with a given WikiName / that declare a redirect.
Named(wikiname) ==
  { n \in 1..Len(documents) : documents[n].fm.wiki_name = Some(wikiname) }
Redirecting == { n \in 1..Len(documents) : documents[n].fm.redirect # None }

RECURSIVE Follow(_, _)
\* The name n edges down the redirect chain of wikiname, or its end.
Follow(wikiname, n) ==
  IF n = 0 \/ wikiname \notin DOMAIN redirects THEN wikiname
  ELSE Follow(redirects[wikiname], n - 1)

\* The chain of wikiname never ends: it runs into a cycle.
ChainCycles(wikiname) ==
  Follow(wikiname, Cardinality(DOMAIN redirects)) \in DOMAIN redirects
\* The last name of an acyclic chain.
ChainLast(wikiname) == Follow(wikiname, Cardinality(DOMAIN redirects))
\* wikiname starts an acyclic chain of one or more edges, every edge's target
\* in by_wikiname.
StartsChain(wikiname) ==
  /\ wikiname \in DOMAIN redirects
  /\ ~ChainCycles(wikiname)
  /\ \A n \in 1..Cardinality(DOMAIN redirects) :
       Follow(wikiname, n) \in DOMAIN by_wikiname

\* dest resolves to no document, through a chain or by WikiName.
ResolvesToNothing(dest) ==
  /\ StrTitle(dest) \notin DOMAIN redirects
  /\ Named(StrTitle(dest)) = {}

EndsWith(s, suffix) ==
  /\ Len(suffix) <= Len(s)
  /\ SubSeq(s, Len(s) - Len(suffix) + 1, Len(s)) = suffix
Contains(s, part) ==
  \E k \in 1..(Len(s) - Len(part) + 1) : SubSeq(s, k, k + Len(part) - 1) = part

IsRelref(text) == Contains(text, RelrefOpen)
IsCategoryArchiveLink(text) == Contains(text, KategorieOpen)
IsAnnotated(text) == Contains(text, <<"<", "!", "-", "-">>)

(***************************************************************************)
(* C1.  A link whose title-cased destination starts an acyclic redirect    *)
(* chain of one or more edges is replaced by a relref naming the file of   *)
(* the last document of the chain.  The run breaks this: when the last     *)
(* document itself declares a redirect that made no edge, repl raises      *)
(* ValueError instead of returning a replacement.                          *)
(***************************************************************************)
C1_ChainResolvesToLast ==
  /\ \A n \in Replaced :
       StartsChain(StrTitle(content[n].destination)) =>
         out[n] = RelrefLink(content[n].anchor,
                             FileOf(documents[by_wikiname[
                               ChainLast(StrTitle(content[n].destination))]]))
  /\ ReplRaised => ~StartsChain(StrTitle(CurrentLink.destination))

(***************************************************************************)
(* C2.  ResolveRedirect terminates: every iteration of its loop that does  *)
(* not raise adds a new name to visited, and visited holds only names that *)
(* have a redirect edge, so the loop runs at most once per edge; a link    *)
(* whose chain runs into a cycle never gets a replacement (the loop never  *)
(* returns a document for it), the run ends with the loop's assertion.     *)
(***************************************************************************)
C2_LoopInvariant ==
  /\ pc = "resolve" => /\ visited \subseteq DOMAIN redirects
                       /\ Cardinality(visited) <= Cardinality(DOMAIN redirects)
  /\ \A n \in Replaced : ~ChainCycles(StrTitle(content[n].destination))
  /\ (pc = "aborted" /\ err = "RedirectLoop") =>
       ChainCycles(StrTitle(CurrentLink.destination))
C2_LoopStep ==
  (pc = "resolve" /\ pc' = "resolve" /\ out' = out) =>
     /\ visited' # visited
     /\ visited \subseteq visited'
     /\ wikiname_title \in visited'
\* C2: the loop invariant holds in every state and every iteration of the loop
\* that does not raise grows visited: ResolveRedirect returns or raises.
C2_ResolveRedirectTerminates == []C2_LoopInvariant /\ [][C2_LoopStep]_vars
\* The loop's assertion stops a chain that led into a cycle it did not start
\* in.
C2_Witness ==
  /\ pc = "aborted"
  /\ err = "RedirectLoop"
  /\ StrTitle(CurrentLink.destination) \in visited
  /\ wikiname_title # StrTitle(CurrentLink.destination)

(***************************************************************************)
(* C3.  No relref names the file of a document that declares a redirect;   *)
(* a link that names such a document directly, the document having no      *)
(* redirect edge, is annotated as broken.  The run breaks this: the lookup *)
(* by WikiName takes the redirecting document as the target.               *)
(***************************************************************************)
C3_NoRelrefToRedirect ==
  \A n \in Replaced :
    /\ \A d \in Redirecting :
         out[n] # RelrefLink(content[n].anchor, FileOf(documents[d]))
    /\ ( /\ StrTitle(content[n].destination) \notin DOMAIN redirects
         /\ Named(StrTitle(content[n].destination)) \cap Redirecting # {} )
       => (IsAnnotated(out[n]) /\ ~IsRelref(out[n]))

(***************************************************************************)
(* C4.  The run is ended only by a duplicate WikiName, a redirect cycle or *)
(* an empty source directory; a bad redirect never raises.  The run breaks *)
(* this: a chain that ends at a document with a bad redirect raises        *)
(* ValueError.                                                             *)
(***************************************************************************)
C4_OnlyStructuralAborts ==
  pc = "aborted" => err \in {"NoMarkdownFiles", "DuplicateWikiname", "RedirectLoop"}

(***************************************************************************)
(* C5.  A link whose title-cased destination has no redirect edge and is   *)
(* the WikiName of a document that does not redirect is replaced by a      *)
(* relref naming that document's file, whatever the case of the            *)
(* destination as written; two destinations with the same title-cased form *)
(* get the same file.                                                      *)
(***************************************************************************)
C5_DirectLinkPrecondition(n) ==
  /\ StrTitle(content[n].destination) \notin DOMAIN redirects
  /\ Named(StrTitle(content[n].destination)) # {}
  /\ Named(StrTitle(content[n].destination)) \cap Redirecting = {}
\* C5: every replaced link that names a non-redirecting document by WikiName
\* is a relref to that document's file; repl does not raise for such a link.
C5_DirectLinkByWikiname ==
  /\ \A n \in Replaced :
       C5_DirectLinkPrecondition(n) =>
         \A d \in Named(StrTitle(content[n].destination)) :
           out[n] = RelrefLink(content[n].anchor, FileOf(documents[d]))
  /\ \A n, m \in Replaced :
       ( /\ C5_DirectLinkPrecondition(n)
         /\ StrTitle(content[n].destination) = StrTitle(content[m].destination) )
       => \E d \in 1..Len(documents) :
            /\ out[n] = RelrefLink(content[n].anchor, FileOf(documents[d]))
            /\ out[m] = RelrefLink(content[m].anchor, FileOf(documents[d]))
  /\ ReplRaised =>
       ~( /\ StrTitle(CurrentLink.destination) \notin DOMAIN redirects
          /\ Named(StrTitle(CurrentLink.destination)) # {}
          /\ Named(StrTitle(CurrentLink.destination)) \cap Redirecting = {} )
\* A destination not written in its title-cased form has been resolved.
C5_Witness ==
  \E n \in Replaced :
    /\ C5_DirectLinkPrecondition(n)
    /\ content[n].destination # StrTitle(content[n].destination)
    /\ IsRelref(out[n])

(***************************************************************************)
(* C6.  As amended: a link whose destination resolves to no document and   *)
(* does not match the category-tag pattern is replaced by its anchor text, *)
(* without brackets, followed by the comment "<!-- link nie odnosil sie do *)
(* niczego: ... -->"; it is never a relref or a category link, and repl    *)
(* does not raise for it.                                                  *)
(***************************************************************************)
C6_Unresolvable(item) ==
  /\ ResolvesToNothing(item.destination)
  /\ ~MatchesCategoryTag(item.destination)
\* C6 as amended: the replacement is the anchor, the comment, nothing else.
C6_BrokenLinkAnnotated ==
  /\ \A n \in Replaced :
       C6_Unresolvable(content[n]) =>
         /\ StartsWith(out[n], content[n].anchor \o CommentOpen)
         /\ EndsWith(out[n], CommentClose)
         /\ ~IsRelref(out[n])
         /\ ~IsCategoryArchiveLink(out[n])
  /\ ReplRaised => ~C6_Unresolvable(CurrentLink)
C6_Witness ==
  \E n \in Replaced : C6_Unresolvable(content[n]) /\ IsAnnotated(out[n])
\* C6 as stated: the annotation has the form [anchor]<!-- ... -->, the
\* anchor in brackets.
C6_BracketedAnchor ==
  /\ \A n \in Replaced :
       C6_Unresolvable(content[n]) =>
         /\ StartsWith(out[n], <<"[">> \o content[n].anchor
                                 \o <<"]", "<", "!", "-", "-">>)
         /\ EndsWith(out[n], <<"-", "-", ">">>)
         /\ ~IsRelref(out[n])
         /\ ~IsCategoryArchiveLink(out[n])
  /\ ReplRaised => ~C6_Unresolvable(CurrentLink)

(***************************************************************************)
(* C7.  A link becomes a category archive link only when its destination   *)
(* resolves to no document and matches the category-tag pattern with a     *)
(* category name after the tag; with the tag and an empty name the link is *)
(* annotated as broken.  The run breaks this: the empty name gives the     *)
(* link [anchor](/kategorie/ "Kategoria ").                                *)
(***************************************************************************)
C7_CategoryOnlyWhenNamed ==
  \A n \in Replaced :
    /\ IsCategoryArchiveLink(out[n]) =>
         /\ ResolvesToNothing(content[n].destination)
         /\ MatchesCategoryTag(content[n].destination)
         /\ Len(content[n].destination) > Len(CATEGORY_TAG) + 2
    /\ ( /\ ResolvesToNothing(content[n].destination)
         /\ MatchesCategoryTag(content[n].destination)
         /\ Len(content[n].destination) = Len(CATEGORY_TAG) + 2 )
       => (IsAnnotated(out[n]) /\ ~IsCategoryArchiveLink(out[n]))

(***************************************************************************)
(* C8.  When two source files that are loaded share a WikiName, the run    *)
(* never gets past the load loop: it ends there with the assertion, with   *)
(* no Site Index, no conversion and no output.                             *)
(***************************************************************************)
\* The source files that become documents, and the WikiName of each.
LoadedPaths == { p \in DOMAIN files : ~files[p].front_matter }
WikinameOfPath ==
  [p \in Paths |-> StrTitle(StrReplace(TitleFromPath(p), " ", "_"))]
SharedWikiname ==
  \E p, q \in LoadedPaths : p # q /\ WikinameOfPath[p] = WikinameOfPath[q]
\* C8: with a shared WikiName the run is in the load loop or ended by its
\* assertion, and nothing has been built, converted or written.
C8_DuplicateAbortsLoad ==
  SharedWikiname =>
    /\ pc \in {"start", "load", "aborted"}
    /\ pc = "aborted" => err = "DuplicateWikiname"
    /\ pc = "load" => todo # {}
    /\ by_path = EmptyDict /\ by_wikiname = EmptyDict /\ redirects = EmptyDict
    /\ content = <<>> /\ out = <<>>
    /\ write_calls = <<>> /\ files_modified = {} /\ printed = None
C8_Witness ==
  /\ pc = "aborted"
  /\ err = "DuplicateWikiname"
  /\ documents # <<>>

(***************************************************************************)
(* C9.  When the run is ended by a redirect cycle, WriteContent has not    *)
(* been called.  The run breaks this: the cycle is found while a document  *)
(* is converted, after the documents before it have been written.          *)
(***************************************************************************)
C9_CycleBeforeAnyWrite ==
  (pc = "aborted" /\ err = "RedirectLoop") => write_calls = <<>>

(***************************************************************************)
(* C10.  In a run that completes, WriteContent has been called exactly     *)
(* once for the path of every loaded document that declares no redirect,   *)
(* and never for another path.                                             *)
(***************************************************************************)
Calls(path) == Cardinality({ k \in 1..Len(write_calls) : write_calls[k] = path })
\* C10: at the end of a completed run, one WriteContent call per loaded
\* document without a redirect, none for any other path.
C10_WrittenIffNotRedirect ==
  pc = "done" =>
    /\ \A p \in LoadedPaths :
         Calls(p) = IF GetRedirect(files[p]) = None THEN 1 ELSE 0
    /\ \A k \in 1..Len(write_calls) : write_calls[k] \in LoadedPaths
C10_Witness ==
  /\ pc = "done"
  /\ write_calls # <<>>
  /\ \E p \in LoadedPaths : GetRedirect(files[p]) # None

(***************************************************************************)
(* C11.  Once redirect discovery is over, and before any document is       *)
(* resolved or written: S -> T is an edge of the                           *)
(* redirect map exactly when a document named S declares the redirect T    *)
(* and T is a key of by_wikiname; for every edge the URL path of S is in   *)
(* the aliases of the document T names; the aliases hold nothing else, so  *)
(* a redirect to a category or to a missing page makes no edge and no      *)
(* alias.  The front matter written for a document holds, in sorted order, *)
(* the URL path of every redirect document that points at it.              *)
(***************************************************************************)
DiscoveryOver ==
  \/ pc \in {"write", "resolve", "emit", "done"}
  \/ pc = "discover" /\ i > Len(documents)
  \/ pc = "aborted" /\ err \in LinkErrors
\* Discovery is over and the write loop is at its head: before the first
\* document is converted, and between two documents.
BeforeNextDocument ==
  \/ pc = "discover" /\ i > Len(documents)
  \/ pc = "write"
Elements(seq) == { seq[n] : n \in 1..Len(seq) }
\* The edge document n should have made: its name and its declared target.
DeclaresEdge(n) ==
  /\ documents[n].fm.redirect # None
  /\ documents[n].fm.redirect[1] \in DOMAIN by_wikiname
\* The redirect documents that point at document t.
PointingAt(t) ==
  { n \in 1..Len(documents) :
      DeclaresEdge(n) /\ by_wikiname[documents[n].fm.redirect[1]] = t }
\* The sequences that hold every element of set once, in ascending order.
Ascending(set) ==
  { seq \in [1..Cardinality(set) -> set] :
      /\ Elements(seq) = set
      /\ \A n \in 1..(Len(seq) - 1) : StrLess(seq[n], seq[n + 1]) }
\* C11: after discovery, before each document is converted and written, the
\* redirect map holds exactly the declared edges
\* whose target is in by_wikiname, each target's aliases are exactly the URL
\* paths of the documents pointing at it, and the front matter written for a
\* document lists them in sorted order.
C11_RedirectMapAndAliases ==
  /\ BeforeNextDocument =>
       /\ \A n \in 1..Len(documents) :
            DeclaresEdge(n) <=>
              /\ documents[n].fm.wiki_name[1] \in DOMAIN redirects
              /\ documents[n].fm.redirect # None
              /\ redirects[documents[n].fm.wiki_name[1]]
                   = documents[n].fm.redirect[1]
       /\ \A S \in DOMAIN redirects :
            /\ redirects[S] \in DOMAIN by_wikiname
            /\ \E n \in 1..Len(documents) :
                 /\ documents[n].fm.wiki_name = Some(S)
                 /\ documents[n].fm.redirect = Some(redirects[S])
       /\ \A t \in 1..Len(documents) :
            /\ Elements(documents[t].fm.aliases)
                 = { URLPath(documents[n]) : n \in PointingAt(t) }
            /\ Len(documents[t].fm.aliases) = Cardinality(PointingAt(t))
  /\ pc = "emit" =>
       \E updated_content \in {UpdatedContent} :
         \A seq \in Ascending({ URLPath(documents[n]) : n \in PointingAt(i) }) :
           \E line \in {IF seq = <<>> THEN Template.wikilinks
                        ELSE <<"\n">> \o Template.aliases \o ReprList(seq) \o <<"\n">>} :
             Contains(updated_content, line)
\* A document two redirect documents point at is about to be written.
C11_Witness ==
  /\ pc = "emit"
  /\ Cardinality(PointingAt(i)) = 2
  /\ documents[i].fm.aliases[1] # Sorted(documents[i].fm.aliases)[1]

(***************************************************************************)
(* C12.  A call of WriteContent changes the file at the path exactly when  *)
(* dry_run is false and the file is absent or holds other bytes, and then  *)
(* the file holds the content; on a file with the same bytes it writes     *)
(* nothing and returns False; with dry_run it leaves the file as it is;    *)
(* with or without dry_run it returns True exactly when the file is absent *)
(* or holds other bytes, which is when a real run writes.                  *)
(***************************************************************************)
C12_WriteContentEffect ==
  pc = "return" =>
    LET before == arg.file
        after == ret[1].file
        differs == before = None \/ before[1] # arg.content
    IN  /\ (after # before) <=> (~arg.dry_run /\ differs)
        /\ after # before => after = Some(arg.content)
        /\ ~differs => (ret[1].result = FALSE /\ after = before)
        /\ arg.dry_run => after = before
        /\ ret[1].result <=> differs
\* A dry run over a file with other bytes: True, and the file is kept.
C12_Witness ==
  /\ pc = "return"
  /\ arg.dry_run
  /\ arg.file # None
  /\ ret[1].result
  /\ ret[1].file = arg.file

(***************************************************************************)
(* C13.  The count printed at the end of a completed run is the number of  *)
(* documents for which WriteContent returned True; a document whose output *)
(* was skipped as byte-identical is not counted.  The run breaks this: the *)
(* write loop counts every call of WriteContent, whatever it returned.     *)
(***************************************************************************)
C13_CountIsFilesWritten ==
  pc = "done" =>
    printed = Some(Cardinality({ p \in DOMAIN writing_result :
                                   writing_result[p] }))

(***************************************************************************)
(* C14.  FixMonospace turns every maximal run of consecutive lines that    *)
(* are each wrapped in single backticks into one fenced block: a blank     *)
(* line, a fence, the unwrapped lines in order, a fence, a blank line,     *)
(* also when the run ends the input; every other line is kept, in order.   *)
(* The code breaks this: a run that ends the input gets no closing fence.  *)
(***************************************************************************)
\* The number of wrapped lines lines starts with.
RECURSIVE RunLength(_)
RunLength(lines) ==
  IF lines = <<>> \/ ~MatchesMonospace(lines[1]) THEN 0
  ELSE 1 + RunLength(Tail(lines))
RECURSIVE Fenced(_)
\* The lines the claim describes for lines.
Fenced(lines) ==
  IF lines = <<>> THEN <<>>
  ELSE IF RunLength(lines) = 0 THEN <<lines[1]>> \o Fenced(Tail(lines))
  ELSE <<<<>>, Fence>>
         \o [k \in 1..RunLength(lines) |-> Monospace(lines[k])]
         \o <<Fence, <<>>>>
         \o Fenced(SubSeq(lines, RunLength(lines) + 1, Len(lines)))
\* C14: the content FixMonospace returns is the lines of the input with every
\* maximal run of wrapped lines turned into one closed fenced block.
C14_RunsBecomeFencedBlocks ==
  pc = "return" =>
    ret[1] = StrJoin(Fenced(SplitLines(arg)), <<"\n">>) \o <<"\n">>

(***************************************************************************)
(* C15.  For every string s, Slugify(Slugify(s)) = Slugify(s), and         *)
(* Slugify(s) neither starts nor ends with '-'.                            *)
(***************************************************************************)
C15_SlugifyIdempotent ==
  pc = "return" =>
    /\ ret[1] # <<>> => (ret[1][1] # "-" /\ ret[1][Len(ret[1])] # "-")
    /\ Len(ret) = 2 => ret[2] = ret[1]
\* A string with separators at both ends and an upper-case letter has been
\* slugified twice, to something other than itself.
C15_Witness ==
  /\ pc = "return"
  /\ Len(ret) = 2
  /\ Len(arg) >= 3
  /\ ~IsWordChar(arg[1])
  /\ ~IsWordChar(arg[Len(arg)])
  /\ ret[1] # <<>>
  /\ ret[1] # arg

(***************************************************************************)
(* C16.  The redirect of a Document's front matter is set exactly when the *)
(* content begins with a redirect directive, possibly after a list marker, *)
(* and is then the directive's destination, title-cased; a document with a *)
(* directive only later in its content has no redirect and is written as   *)
(* an ordinary page.  The code breaks this: GetRedirect searches the whole *)
(* content, so a directive anywhere makes the document a redirect, and the *)
(* write loop skips it.                                                    *)
(***************************************************************************)
\* The content after its list marker ('1.' and white space), if it has one.
AfterListMarker(s) ==
  IF Len(s) >= 3 /\ s[1] \in Digits /\ s[2] = "." /\ s[3] \in Space
  THEN IF FirstWhere(s, 3, Space, FALSE) = 0 THEN <<>>
       ELSE DropFirst(s, FirstWhere(s, 3, Space, FALSE) - 1)
  ELSE s
LeadingDirective(s) == MatchRedirectAt(AfterListMarker(s), 1)
\* C16: a Document has a redirect exactly when its content begins with a
\* directive; then it is the title-cased destination, else the Document is
\* one the write loop writes.
C16_RedirectIffLeadingDirective ==
  (pc = "return" /\ ret[1] # None) =>
    LET d == ret[1][1]
        leading == LeadingDirective(arg.content)
    IN  /\ d.fm.redirect # None <=> leading # None
        /\ leading # None => d.fm.redirect = Some(StrTitle(leading[1]))
        /\ leading = None => ~NotWritten(d)

(***************************************************************************)
(* C17.  DocumentsByPath fails only when two of the documents have the     *)
(* same path; otherwise every document is the value of its own path, also  *)
(* when that path is the lower-cased path of an earlier document, and a    *)
(* lower-cased key that is no document's path has the first document that  *)
(* gave it.  The code breaks this: its assertion also fails for a document *)
(* whose path is the lower-cased path of an earlier one.                   *)
(***************************************************************************)
C17_FailsOnlyOnSamePath ==
  pc = "return" =>
    LET real == { arg[n].path : n \in 1..Len(arg) }
        lowered(k) == { n \in 1..Len(arg) : StrLower(arg[n].path) = k }
    IN  /\ ret.by_path = None <=>
             \E m, n \in 1..Len(arg) : m # n /\ arg[m].path = arg[n].path
        /\ ret.by_path # None =>
             LET by == ret.by_path[1]
             IN  /\ DOMAIN by = real \cup { StrLower(p) : p \in real }
                 /\ \A n \in 1..Len(arg) : by[arg[n].path] = n
                 /\ \A k \in DOMAIN by \ real :
                      /\ by[k] \in lowered(k)
                      /\ \A n \in lowered(k) : by[k] <= n

(***************************************************************************)
(* C18.  The Document a pass returns has the path of the Document the pass *)
(* was called on; the passes leave that Document as it was (its content,   *)
(* its front matter and the aliases in it), and by_path, by_wikiname, the  *)
(* redirect map and every other document too: once redirect discovery is  *)
(* over, no step of the run changes the Site Index or a loaded document.   *)
(***************************************************************************)
C18_NewDocument ==
  converted # None =>
    /\ pc \in {"resolve", "emit", "aborted"}
    /\ converted[1].path = documents[i].path
C18_Frame ==
  /\ DiscoveryOver =>
       /\ documents' = documents
       /\ by_path' = by_path
       /\ by_wikiname' = by_wikiname
       /\ redirects' = redirects
  /\ (pc \in {"resolve", "emit"} /\ pc' \in {"resolve", "emit"}) =>
       source' = source
\* C18: every Document returned keeps the path, every step after discovery
\* keeps the documents and the Site Index.
C18_PassesMutateNothing == []C18_NewDocument /\ [][C18_Frame]_vars
\* The passes have rewritten the links of a document that has aliases; the
\* Document they returned has a front matter of its own, without them.
C18_Witness ==
  /\ pc = "emit"
  /\ documents[i].fm.aliases # <<>>
  /\ converted[1].fm.aliases = <<>>
  /\ \E n \in 1..Len(source) : out[n] # <<>>

=============================================================================
